---- MODULE Spec2Model ----
(***************************************************************************)
(* A model of srcfg (src/srcfg/__init__.py): the line-by-line parser of    *)
(* the srcfg configuration format, its section-path resolver               *)
(* (SrcfgFile._add_section), its value interpreter (_parse_value) and its  *)
(* import merge (_extend_section).                                         *)
(*                                                                         *)
(* Text is a sequence of one-character strings.  Python objects live in a  *)
(* heap: a sequence of records, an object's identity being its index.      *)
(* A dict is a sequence of [k, v] records in insertion order, as Python    *)
(* dicts iterate.  None is 0 for an object reference and the empty text    *)
(* for an optional text (the code only ever tests those for truth).        *)
(***************************************************************************)
EXTENDS Naturals, Sequences, FiniteSets, TLC

(***************************************************************************)
(* Bounds of the model.                                                    *)
(***************************************************************************)
\* the number of lines of the parsed text
MaxLines == 4
\* the depth of nested parse() calls at which Python gives up (RecursionError)
MaxDepth == 3

(***************************************************************************)
(* Characters and text.                                                    *)
(***************************************************************************)
COMMENT_PREFIX == <<";", ";">>

Letters ==
    {"a","b","c","d","e","f","g","h","i","j","k","l","m","n","o","p","q","r",
     "s","t","u","v","w","x","y","z","A","B","C","D","E","F","G","H","I","J",
     "K","L","M","N","O","P","Q","R","S","T","U","V","W","X","Y","Z"}

Digits == {"0","1","2","3","4","5","6","7","8","9"}

\* the regex class \s and the characters str.strip() removes
Whitespace == {" ", "\t"}

\* the regex class [a-zA-Z0-9_-]
KeyChars == Letters \cup Digits \cup {"_", "-"}

\* the regex class [a-zA-Z0-9_\.-]
ArrayNameChars == KeyChars \cup {"."}

\* the regex class [\sa-zA-Z0-9_\.-]
SectionNameChars == ArrayNameChars \cup Whitespace

RECURSIVE lstrip(_)
lstrip(s) ==
    IF s # <<>> /\ Head(s) \in Whitespace THEN lstrip(Tail(s)) ELSE s

RECURSIVE rstrip(_)
rstrip(s) ==
    IF s # <<>> /\ s[Len(s)] \in Whitespace
    THEN rstrip(SubSeq(s, 1, Len(s) - 1))
    ELSE s

\* str.strip()
strip(s) == rstrip(lstrip(s))

\* str.startswith(p)
startswith(s, p) == Len(s) >= Len(p) /\ SubSeq(s, 1, Len(p)) = p

\* the positions at which p occurs in s
Occurrences(s, p) ==
    {i \in 1..(Len(s) + 1 - Len(p)) : SubSeq(s, i, i + Len(p) - 1) = p}

\* p in s
contains(s, p) == Occurrences(s, p) # {}

\* str.index(p), 1-based; only used where p occurs in s
index(s, p) ==
    CHOOSE i \in Occurrences(s, p) : \A j \in Occurrences(s, p) : i <= j

\* the last position at which p occurs in s
rindex(s, p) ==
    CHOOSE i \in Occurrences(s, p) : \A j \in Occurrences(s, p) : j <= i

\* str.split(".", maxsplit=1): "a.b.c" gives <<"a", "b.c">>, "a" gives <<"a">>
split_dot(s) ==
    IF contains(s, <<".">>)
    THEN <<SubSeq(s, 1, index(s, <<".">>) - 1),
           SubSeq(s, index(s, <<".">>) + 1, Len(s))>>
    ELSE <<s>>

(***************************************************************************)
(* Dicts, in insertion order.                                              *)
(***************************************************************************)
\* k in d
in_dict(d, k) == \E i \in 1..Len(d) : d[i].k = k

\* d[k]
getitem(d, k) == d[CHOOSE i \in 1..Len(d) : d[i].k = k].v

\* d[k] = v: an existing key keeps its place, a new key goes last
setitem(d, k, v) ==
    IF in_dict(d, k)
    THEN [i \in 1..Len(d) |-> IF d[i].k = k THEN [k |-> k, v |-> v] ELSE d[i]]
    ELSE Append(d, [k |-> k, v |-> v])

(***************************************************************************)
(* Objects.  A SrcfgFile and a SrcfgSection hold _sections, a dict from a  *)
(* name to the reference of a SrcfgSection or of a list; a list holds its  *)
(* items, references of SrcfgSection.                                      *)
(***************************************************************************)
SrcfgFile ==
    [kind |-> "file", name |-> <<>>, parent |-> 0,
     sections |-> <<>>, entries |-> <<>>, items |-> <<>>]

SrcfgSection(name, parent) ==
    [kind |-> "section", name |-> name, parent |-> parent,
     sections |-> <<>>, entries |-> <<>>, items |-> <<>>]

List(items) ==
    [kind |-> "list", name |-> <<>>, parent |-> 0,
     sections |-> <<>>, entries |-> <<>>, items |-> items]

\* isinstance(o, SrcfgSection)
IsSection(heap, o) == heap[o].kind = "section"

\* the heap with _sections[name] = ref done on container c
BindSection(heap, c, name, ref) ==
    [heap EXCEPT ![c].sections = setitem(@, name, ref)]

RECURSIVE get_top_section(_, _)
get_top_section(heap, s) ==
    IF heap[heap[s].parent].kind = "file"
    THEN s
    ELSE get_top_section(heap, heap[s].parent)

(***************************************************************************)
(* SrcfgFile._add_section.  The result is the heap after the call and the  *)
(* returned pair: section is the reference of the section (0 for None),    *)
(* err the message ("" for None) and arg the name the message embeds.      *)
(***************************************************************************)
Returned(heap, section) ==
    [heap |-> heap, section |-> section, err |-> "", arg |-> <<>>]

ReturnedError(heap, err, arg) ==
    [heap |-> heap, section |-> 0, err |-> err, arg |-> arg]

\* a faulty variant: a name bound to a single section is rebound to a new list
add_array_section_rebinds(heap, _ref_section, section_name) ==
    LET section == Len(heap) + 1
        made == Append(heap, SrcfgSection(section_name, _ref_section))
    IN  IF in_dict(heap[_ref_section].sections, section_name)
           /\ ~IsSection(heap, getitem(heap[_ref_section].sections, section_name))
        THEN Returned([made EXCEPT ![getitem(heap[_ref_section].sections,
                                             section_name)].items =
                                        Append(@, section)],
                      section)
        ELSE Returned(BindSection(Append(made, List(<<section>>)),
                                  _ref_section, section_name, section + 1),
                      section)

\* the terminal segment of an array header: append to the list, or bind a new one
add_array_section(heap, _ref_section, section_name) ==
    LET section == Len(heap) + 1
        made == Append(heap, SrcfgSection(section_name, _ref_section))
    IN  IF in_dict(heap[_ref_section].sections, section_name)
        THEN LET section_array == getitem(heap[_ref_section].sections, section_name)
             IN  IF IsSection(heap, section_array)
                 THEN ReturnedError(heap, "Section with name is not an array",
                                    section_name)
                 ELSE Returned([made EXCEPT ![section_array].items =
                                                Append(@, section)],
                               section)
        ELSE Returned(BindSection(Append(made, List(<<section>>)),
                                  _ref_section, section_name, section + 1),
                      section)

\* a faulty variant: a bound scalar name is bound to a new section each time
add_scalar_section_fresh(heap, _ref_section, section_name) ==
    IF in_dict(heap[_ref_section].sections, section_name)
       /\ ~IsSection(heap, getitem(heap[_ref_section].sections, section_name))
    THEN ReturnedError(heap, "Section with name is an array", section_name)
    ELSE Returned(BindSection(Append(heap,
                                     SrcfgSection(section_name, _ref_section)),
                              _ref_section, section_name, Len(heap) + 1),
                  Len(heap) + 1)

\* the terminal segment of a scalar header: the bound section, or a new one
add_scalar_section(heap, _ref_section, section_name) ==
    IF in_dict(heap[_ref_section].sections, section_name)
    THEN LET section == getitem(heap[_ref_section].sections, section_name)
         IN  IF ~IsSection(heap, section)
             THEN ReturnedError(heap, "Section with name is an array",
                                section_name)
             ELSE Returned(heap, section)
    ELSE Returned(BindSection(Append(heap,
                                     SrcfgSection(section_name, _ref_section)),
                              _ref_section, section_name, Len(heap) + 1),
                  Len(heap) + 1)

RECURSIVE _add_section(_, _, _, _, _, _)

\* the name splits in a head and a rest: the head is entered, or created
add_sub_section(heap, self, _ref_section, section_name_parts, is_array) ==
    IF in_dict(heap[_ref_section].sections, section_name_parts[1])
    THEN IF ~IsSection(heap, getitem(heap[_ref_section].sections,
                                     section_name_parts[1]))
         THEN ReturnedError(heap, "Cannot use section path through arrays",
                            section_name_parts[1])
         ELSE _add_section(heap, self, section_name_parts[2], 0,
                           getitem(heap[_ref_section].sections,
                                   section_name_parts[1]),
                           is_array)
    ELSE _add_section(
             BindSection(Append(heap, SrcfgSection(section_name_parts[1],
                                                   _ref_section)),
                         _ref_section, section_name_parts[1], Len(heap) + 1),
             self, section_name_parts[2], 0, Len(heap) + 1, is_array)

\* from the split of the name on: section_name has lost its leading dot
add_section_parts(heap, self, _ref_section, section_name, section_name_parts, is_array) ==
    IF Len(section_name_parts) = 1
    THEN IF is_array
         THEN add_array_section(heap, _ref_section, section_name)
         ELSE add_scalar_section(heap, _ref_section, section_name)
    ELSE add_sub_section(heap, self, _ref_section, section_name_parts, is_array)

\* the reference section is the file if none is specified
add_section_in(heap, self, ref_section, section_name, is_array) ==
    add_section_parts(heap, self, IF ref_section # 0 THEN ref_section ELSE self,
                      section_name, split_dot(section_name), is_array)

_add_section(heap, self, section_name, current_section, ref_section, is_array) ==
    IF startswith(section_name, <<".">>)
    THEN IF current_section = 0
         THEN ReturnedError(heap,
                  "Cannot use dot-section names outside a section", <<>>)
         ELSE add_section_in(heap, self, get_top_section(heap, current_section),
                             Tail(section_name), is_array)
    ELSE add_section_in(heap, self, ref_section, section_name, is_array)

(***************************************************************************)
(* _parse_section_row: the name and the kind a header line declares.       *)
(* name is the empty text for None.                                        *)
(***************************************************************************)
\* ^\[([\sa-zA-Z0-9_\.-]+)\]$
IsSectionRow(l) ==
    /\ Len(l) >= 3
    /\ l[1] = "[" /\ l[Len(l)] = "]"
    /\ \A i \in 2..(Len(l) - 1) : l[i] \in SectionNameChars

\* ^\[\[([a-zA-Z0-9_\.-]+)\]\]$
IsArrayRow(l) ==
    /\ Len(l) >= 5
    /\ l[1] = "[" /\ l[2] = "[" /\ l[Len(l) - 1] = "]" /\ l[Len(l)] = "]"
    /\ \A i \in 3..(Len(l) - 2) : l[i] \in ArrayNameChars

_parse_section_row(l) ==
    IF IsSectionRow(l)
    THEN [name |-> strip(SubSeq(l, 2, Len(l) - 1)), is_array |-> FALSE]
    ELSE IF IsArrayRow(l)
    THEN [name |-> strip(SubSeq(l, 3, Len(l) - 2)), is_array |-> TRUE]
    ELSE [name |-> <<>>, is_array |-> FALSE]

(***************************************************************************)
(* The environment and _parse_value.                                       *)
(***************************************************************************)
\* os.environ: A and B are set; no other variable is
environ ==
    << [k |-> <<"A">>, v |-> <<"7", "7">>],
       [k |-> <<"B">>, v |-> <<"x">>] >>

\* re.finditer(r'\${(.+)}', v), each match by its first and last position.
\* (.+) is greedy: a match starts at the leftmost "${" that has a "}" at
\* least one character further and runs to the last "}" of v, so v holds
\* one match at most.
finditer(v) ==
    IF /\ contains(v, <<"$", "{">>)
       /\ \E e \in Occurrences(v, <<"}">>) : e >= index(v, <<"$", "{">>) + 3
    THEN << [start |-> index(v, <<"$", "{">>), end |-> rindex(v, <<"}">>)] >>
    ELSE <<>>

\* str.replace(old, new): every occurrence of old, leftmost first
RECURSIVE replace(_, _, _)
replace(v, old, new) ==
    IF Len(v) < Len(old) \/ old = <<>>
    THEN v
    ELSE IF startswith(v, old)
         THEN new \o replace(SubSeq(v, Len(old) + 1, Len(v)), old, new)
         ELSE <<Head(v)>> \o replace(Tail(v), old, new)

\* a faulty variant: a variable that is not set is replaced by the empty text
RECURSIVE substitute_blank(_, _, _)
substitute_blank(orig, matches, v) ==
    IF matches = <<>>
    THEN [v |-> v, err |-> "", arg |-> <<>>]
    ELSE LET match == Head(matches)
             group0 == SubSeq(orig, match.start, match.end)
             var_name == SubSeq(orig, match.start + 2, match.end - 1)
         IN  substitute_blank(orig, Tail(matches),
                 replace(v, group0,
                         IF in_dict(environ, var_name)
                         THEN getitem(environ, var_name)
                         ELSE <<>>))

\* the loop over the matches: orig is the text the matches were found in
RECURSIVE substitute(_, _, _)
substitute(orig, matches, v) ==
    IF matches = <<>>
    THEN [v |-> v, err |-> "", arg |-> <<>>]
    ELSE LET match == Head(matches)
             group0 == SubSeq(orig, match.start, match.end)
             var_name == SubSeq(orig, match.start + 2, match.end - 1)
         IN  IF in_dict(environ, var_name)
             THEN substitute(orig, Tail(matches),
                             replace(v, group0, getitem(environ, var_name)))
             ELSE [v |-> <<>>, err |-> "Unable to find env var",
                   arg |-> var_name]

\* the placeholders of v are replaced
interpolate(v) == substitute(v, finditer(v), v)

\* the value (the empty text for None) and the error ("" for None)
_parse_value(v) ==
    interpolate(IF contains(v, COMMENT_PREFIX)
                THEN strip(SubSeq(v, 1, index(v, COMMENT_PREFIX) - 1))
                ELSE v)

(***************************************************************************)
(* The key/value row of parse: optional whitespace, a possibly empty key   *)
(* of KeyChars, optional whitespace, the operator = or :=, and the rest of *)
(* the line as the value.                                                  *)
(***************************************************************************)
\* the first position from i on whose character is not in class
RECURSIVE SkipClass(_, _, _)
SkipClass(l, i, class) ==
    IF i <= Len(l) /\ l[i] \in class THEN SkipClass(l, i + 1, class) ELSE i

\* the groups, the key running from a to b - 1 and the operator being at c
key_value_groups(l, a, b, c) ==
    IF c <= Len(l) /\ l[c] = "="
    THEN [matched |-> TRUE, k |-> SubSeq(l, a, b - 1), op |-> "=",
          v |-> SubSeq(l, c + 1, Len(l))]
    ELSE IF c + 1 <= Len(l) /\ l[c] = ":" /\ l[c + 1] = "="
    THEN [matched |-> TRUE, k |-> SubSeq(l, a, b - 1), op |-> ":=",
          v |-> SubSeq(l, c + 2, Len(l))]
    ELSE [matched |-> FALSE, k |-> <<>>, op |-> "", v |-> <<>>]

key_after_space(l, a) ==
    key_value_groups(l, a, SkipClass(l, a, KeyChars),
                     SkipClass(l, SkipClass(l, a, KeyChars), Whitespace))

\* re.findall on the row: matched, and the three groups
key_value_row(l) == key_after_space(l, SkipClass(l, 1, Whitespace))

(***************************************************************************)
(* SrcfgParseError.                                                        *)
(***************************************************************************)
SrcfgParseError(line_nb, line, message, arg, internal_errors) ==
    [line_nb |-> line_nb, line |-> line, message |-> message, arg |-> arg,
     internal_errors |-> internal_errors]

\* the default message of SrcfgParseError
DefaultMessage == "unable to parse"

(***************************************************************************)
(* _extend_section: the heap after the merge and the returned error.       *)
(***************************************************************************)
\* a faulty variant: an entry the destination holds already keeps its value
RECURSIVE extend_entries_keeps(_, _, _)
extend_entries_keeps(dst_entries, src_entries, i) ==
    IF i > Len(src_entries)
    THEN dst_entries
    ELSE extend_entries_keeps(
             IF in_dict(dst_entries, src_entries[i].k)
             THEN dst_entries
             ELSE setitem(dst_entries, src_entries[i].k, src_entries[i].v),
             src_entries, i + 1)

\* for key, value in src: dst._entries[key] = value
RECURSIVE extend_entries(_, _, _)
extend_entries(dst_entries, src_entries, i) ==
    IF i > Len(src_entries)
    THEN dst_entries
    ELSE extend_entries(setitem(dst_entries, src_entries[i].k, src_entries[i].v),
                        src_entries, i + 1)

\* a faulty variant: a list that holds elements already is not extended
extend_list_once(heap, dst_section, src_section) ==
    [heap EXCEPT ![dst_section].items =
        IF @ = <<>> THEN heap[src_section].items ELSE @]

\* dst_section.extend(src_section)
extend_list(heap, dst_section, src_section) ==
    [heap EXCEPT ![dst_section].items = @ \o heap[src_section].items]

RECURSIVE _extend_section(_, _, _)
RECURSIVE extend_sections(_, _, _, _)

\* the loop over src._sections.items(), from its i-th item on
extend_sections(heap, dst, src, i) ==
    IF i > Len(heap[src].sections)
    THEN [heap |-> heap, err |-> "", arg |-> <<>>]
    ELSE
    LET name == heap[src].sections[i].k
        src_section == heap[src].sections[i].v
        MergeError == [heap |-> heap,
                       err |-> "Unable to merge section: cannot merge section with list",
                       arg |-> name]
    IN  IF in_dict(heap[dst].sections, name)
        THEN LET dst_section == getitem(heap[dst].sections, name)
             IN  IF IsSection(heap, dst_section)
                 THEN IF IsSection(heap, src_section)
                      THEN LET r == _extend_section(heap, dst_section, src_section)
                           IN  IF r.err # ""
                               THEN r
                               ELSE extend_sections(r.heap, dst, src, i + 1)
                      ELSE MergeError
                 ELSE IF IsSection(heap, src_section)
                      THEN MergeError
                      ELSE extend_sections(
                               extend_list(heap, dst_section, src_section),
                               dst, src, i + 1)
        ELSE extend_sections(BindSection(heap, dst, name, src_section),
                             dst, src, i + 1)

_extend_section(heap, dst, src) ==
    IF IsSection(heap, dst) /\ ~IsSection(heap, src)
    THEN [heap |-> heap, err |-> "Cannot add key values outside a section",
          arg |-> <<>>]
    ELSE extend_sections(
             IF IsSection(heap, dst)
             THEN [heap EXCEPT ![dst].entries =
                                   extend_entries(@, heap[src].entries, 1)]
             ELSE heap,
             dst, src, 1)

(***************************************************************************)
(* The files an @import can name: the text of each, split in lines.        *)
(***************************************************************************)
FileB ==
    << <<"[", "a", ".", "b", "]">>,
       <<"k", " ", "=", " ", "1">>,
       <<"[", "[", "x", "]", "]">>,
       <<"n", " ", "=", " ", "2">>,
       <<"[", "[", "x", "]", "]">>,
       <<"n", " ", "=", " ", "3">> >>

\* the file E: |@import M|, |[[g]]|; no file is called M
FileE ==
    << <<"@", "i", "m", "p", "o", "r", "t", " ", "M">>,
       <<"[", "[", "g", "]", "]">> >>

\* the file Z: |@import Z|, the file imports itself
FileZ == << <<"@", "i", "m", "p", "o", "r", "t", " ", "Z">> >>

files ==
    << [k |-> <<"B">>, v |-> FileB],
       [k |-> <<"E">>, v |-> FileE],
       [k |-> <<"Z">>, v |-> FileZ] >>

RECURSIVE lstrip_slashes(_)
lstrip_slashes(path) ==
    IF path # <<>> /\ Head(path) = "/" THEN lstrip_slashes(Tail(path)) ELSE path

\* os.path.normpath, as far as the targets of the model need it: leading
\* "./" segments are dropped
RECURSIVE normpath(_)
normpath(path) ==
    IF startswith(path, <<".", "/">>)
    THEN normpath(lstrip_slashes(SubSeq(path, 3, Len(path))))
    ELSE path

\* _is_file_path: the normalized target holds a separator or starts with "~"
_is_file_path(path_or_name) ==
    \/ contains(normpath(path_or_name), <<"/">>)
    \/ startswith(normpath(path_or_name), <<"~">>)

\* _find_file(cwd, name): every file of the model lies in cwd, where
\* (cwd / name).exists() finds it
_find_file(name) == in_dict(files, normpath(name))

(***************************************************************************)
(* parse: the state of one call is the heap and the locals of parse.       *)
(* raised names the exception that ended the call ("" while none has).     *)
(***************************************************************************)
IMPORT == <<"@", "i", "m", "p", "o", "r", "t">>
INSERT == <<"@", "i", "n", "s", "e", "r", "t">>

\* parse_errors.append(SrcfgParseError(line_nb, l, message))
append_error(st, l, message, arg, internal_errors) ==
    [st EXCEPT !.parse_errors =
        Append(@, SrcfgParseError(st.line_nb, l, message, arg, internal_errors))]

\* the state of a call of parse() before its first line
ParseStart(heap) ==
    [heap |-> Append(heap, SrcfgFile), res |-> Len(heap) + 1,
     current_section |-> 0, current_key |-> <<>>, parse_errors |-> <<>>,
     line_nb |-> 0, raised |-> ""]

RECURSIVE parse_file(_, _, _)
RECURSIVE parse(_, _, _)
RECURSIVE parse_line(_, _, _)

\* the merge of the imported file, when there is one
import_merged(st, l, merged) ==
    IF merged.err # ""
    THEN append_error([st EXCEPT !.heap = merged.heap], l, merged.err,
                      merged.arg, <<>>)
    ELSE [st EXCEPT !.heap = merged.heap]

\* a faulty variant: the errors of the imported file are added to the list as they are
import_parsed_flattens(st, l, imported) ==
    IF imported.raised # ""
    THEN [st EXCEPT !.raised = imported.raised]
    ELSE IF imported.res = 0
    THEN [st EXCEPT !.parse_errors = @ \o imported.parse_errors]
    ELSE import_merged([st EXCEPT !.parse_errors = @ \o imported.parse_errors],
                       l, _extend_section(imported.heap, st.res, imported.res))

\* after parse_file: the errors are recorded, the file merged
import_parsed(st, l, imported) ==
    IF imported.raised # ""
    THEN [st EXCEPT !.raised = imported.raised]
    ELSE IF imported.parse_errors # <<>>
    THEN IF imported.res = 0
         THEN append_error(st, l, "Got errors when importing file", <<>>,
                           imported.parse_errors)
         ELSE import_merged(
                  append_error(st, l, "Got errors when importing file", <<>>,
                               imported.parse_errors),
                  l, _extend_section(imported.heap, st.res, imported.res))
    ELSE IF imported.res = 0
    THEN st
    ELSE import_merged(st, l,
                       _extend_section(imported.heap, st.res, imported.res))

\* the @import branch
import_line(st, l, stripped_line, depth) ==
    import_parsed(
        [st EXCEPT !.current_key = <<>>], l,
        parse_file(st.heap,
                   strip(SubSeq(stripped_line, Len(IMPORT) + 1,
                                Len(stripped_line))),
                   depth + 1))

\* the @insert branch
insert_line(st, l) ==
    IF st.current_section = 0
    THEN append_error([st EXCEPT !.current_key = <<>>], l,
             "Can only use @insert directive inside a section.", <<>>, <<>>)
    ELSE [st EXCEPT !.current_key = <<>>, !.raised = "NotImplementedError"]

\* after _add_section: the error is recorded, the section made current
section_added(st, l, section_name, added) ==
    IF added.section # 0
    THEN IF added.err # ""
         THEN append_error([st EXCEPT !.heap = added.heap,
                                      !.current_section = added.section],
                           l, added.err, added.arg, <<>>)
         ELSE [st EXCEPT !.heap = added.heap,
                         !.current_section = added.section]
    ELSE append_error([st EXCEPT !.heap = added.heap], l,
             IF added.err # "" THEN added.err ELSE "Unable to add section",
             IF added.err # "" THEN added.arg ELSE section_name, <<>>)

\* after _parse_section_row
section_row(st, l, row) ==
    IF row.name = <<>>
    THEN append_error(st, l, DefaultMessage, <<>>, <<>>)
    ELSE section_added(st, l, row.name,
                       _add_section(st.heap, st.res, row.name,
                                    st.current_section, 0, row.is_array))

\* the section header branch
section_line(st, l, stripped_line) ==
    section_row([st EXCEPT !.current_key = <<>>], l,
                _parse_section_row(stripped_line))

\* a faulty variant: a continued value replaces the entry
write_entry_replaces(st, l, k, v, entries) ==
    IF st.current_key # <<>>
    THEN [st EXCEPT !.heap[st.current_section].entries =
             setitem(@, st.current_key, v)]
    ELSE append_error(st, l, "Please specify a key", <<>>, <<>>)

\* the entry of current_key is continued (k is empty) or written
write_entry(st, l, k, v, entries) ==
    IF st.current_key # <<>>
    THEN IF k = <<>> /\ in_dict(entries, st.current_key)
         THEN [st EXCEPT !.heap[st.current_section].entries =
                  setitem(@, st.current_key,
                          getitem(entries, st.current_key) \o <<"\n">> \o v)]
         ELSE [st EXCEPT !.heap[st.current_section].entries =
                  setitem(@, st.current_key, v)]
    ELSE append_error(st, l, "Please specify a key", <<>>, <<>>)

\* the end of the key/value branch: a key that is not empty becomes current
store_value(st, l, k, v) ==
    write_entry(IF k # <<>> THEN [st EXCEPT !.current_key = k] ELSE st,
                l, k, v, st.heap[st.current_section].entries)

\* a faulty variant: the key of a row whose value fails becomes current
store_parsed_value_keeps_key(st, l, k, value) ==
    IF value.err # ""
    THEN append_error(IF k # <<>> THEN [st EXCEPT !.current_key = k] ELSE st,
                      l, value.err, value.arg, <<>>)
    ELSE store_value(st, l, k, value.v)

\* the value of an = row went through _parse_value
store_parsed_value(st, l, k, value) ==
    IF value.err # ""
    THEN append_error(st, l, value.err, value.arg, <<>>)
    ELSE store_value(st, l, k, value.v)

\* a faulty variant: the value of a := row is interpreted as that of an = row
key_value_matched_interprets(st, l, row) ==
    IF ~row.matched
    THEN append_error(st, l, DefaultMessage, <<>>, <<>>)
    ELSE store_parsed_value(st, l, row.k, _parse_value(strip(row.v)))

\* after the match of the row
key_value_matched(st, l, row) ==
    IF ~row.matched
    THEN append_error(st, l, DefaultMessage, <<>>, <<>>)
    ELSE IF row.op = "="
    THEN store_parsed_value(st, l, row.k, _parse_value(strip(row.v)))
    ELSE store_value(st, l, row.k, row.v)

\* the key/value branch
key_value_line(st, l) ==
    IF st.current_section = 0
    THEN append_error(st, l, "Cannot have key/value outside a section",
                      <<>>, <<>>)
    ELSE key_value_matched(st, l, key_value_row(l))

\* the branch the stripped line selects
parse_stripped(st, l, stripped_line, depth) ==
    IF stripped_line = <<>>
    THEN st
    ELSE IF startswith(stripped_line, COMMENT_PREFIX)
    THEN st
    ELSE IF startswith(stripped_line, IMPORT)
    THEN import_line(st, l, stripped_line, depth)
    ELSE IF startswith(stripped_line, INSERT)
    THEN insert_line(st, l)
    ELSE IF startswith(stripped_line, <<"[">>)
    THEN section_line(st, l, stripped_line)
    ELSE key_value_line(st, l)

\* one turn of the loop of parse over the lines
parse_line(st, l, depth) ==
    parse_stripped([st EXCEPT !.line_nb = @ + 1], l, strip(l), depth)

\* the loop of parse over the lines that are left
RECURSIVE parse_lines(_, _, _)
parse_lines(st, lines, depth) ==
    IF lines = <<>> \/ st.raised # ""
    THEN st
    ELSE parse_lines(parse_line(st, Head(lines), depth), Tail(lines), depth)

\* parse(contents, cwd), called at the given depth of nested imports
parse(heap, contents, depth) ==
    IF depth > MaxDepth
    THEN [ParseStart(heap) EXCEPT !.raised = "RecursionError"]
    ELSE parse_lines(ParseStart(heap), contents, depth)

\* what parse_file returns of the state parse ended in
FileResult(st) ==
    [heap |-> st.heap, res |-> st.res, raised |-> st.raised,
     parse_errors |-> st.parse_errors]

\* parse_file(path, cwd): res is 0 when the returned file is None.  A
\* target that is a path is opened as it is, and no file of the model is
\* where such a path leads.
parse_file(heap, path, depth) ==
    IF _is_file_path(path)
    THEN [heap |-> heap, res |-> 0, raised |-> "FileNotFoundError",
          parse_errors |-> <<>>]
    ELSE IF normpath(path) \in {<<>>, <<".">>}
    THEN \* the name of cwd itself: exists() holds and open() fails
         [heap |-> heap, res |-> 0, raised |-> "IsADirectoryError",
          parse_errors |-> <<>>]
    ELSE IF ~_find_file(path)
    THEN [heap |-> heap, res |-> 0, raised |-> "",
          parse_errors |->
              << SrcfgParseError(0, <<>>, "Unable to find file", path, <<>>) >>]
    ELSE FileResult(parse(heap, getitem(files, normpath(path)), depth))

(***************************************************************************)
(* The lines the parsed text is made of.                                   *)
(***************************************************************************)
\* the line |[a]|
Line_a == <<"[", "a", "]">>
\* the line |[a.b]|
Line_a_b == <<"[", "a", ".", "b", "]">>
\* the line |[[a.x]]|
Line_arr_a_x == <<"[", "[", "a", ".", "x", "]", "]">>
\* the line |[[.x]]|
Line_arr_dot_x == <<"[", "[", ".", "x", "]", "]">>
\* the line |[.x]|
Line_dot_x == <<"[", ".", "x", "]">>
\* the line |[[x]]|
Line_arr_x == <<"[", "[", "x", "]", "]">>
\* the line |[x]|
Line_x == <<"[", "x", "]">>
\* the line |@import B|
Line_import_B == <<"@", "i", "m", "p", "o", "r", "t", " ", "B">>
\* the line |k = 0|
Line_k_0 == <<"k", " ", "=", " ", "0">>
\* the line |[g]|
Line_g == <<"[", "g", "]">>
\* the line |[h]|
Line_h == <<"[", "h", "]">>
\* the line |[h..i]|
Line_h_dots == <<"[", "h", ".", ".", "i", "]">>
\* the line |k = ${A}|
Line_k_env_A == <<"k", " ", "=", " ", "$", "{", "A", "}">>
\* the line |k = ${U}|
Line_k_env_U == <<"k", " ", "=", " ", "$", "{", "U", "}">>
\* the line |j = ${A} ${B}|
Line_j_env_A_B == <<"j", " ", "=", " ", "$", "{", "A", "}", " ", "$", "{", "B", "}">>
\* the line |r := t ;; ${U} |
Line_r_raw == <<"r", " ", ":", "=", " ", "t", " ", ";", ";", " ", "$", "{", "U", "}", " ">>
\* the line |k = t ;; ${U} |
Line_k_cut == <<"k", " ", "=", " ", "t", " ", ";", ";", " ", "$", "{", "U", "}", " ">>
\* the line | = ${B}|
Line_more == <<" ", "=", " ", "$", "{", "B", "}">>
\* the line | :=  r |
Line_more_raw == <<" ", ":", "=", " ", " ", "r", " ">>
\* a line of two spaces
Line_blank == <<" ", " ">>
\* the line | ;; c|
Line_comment == <<" ", ";", ";", " ", "c">>
\* the line |@insert z|
Line_insert == <<"@", "i", "n", "s", "e", "r", "t", " ", "z">>
\* the line |@import M|
Line_import_M == <<"@", "i", "m", "p", "o", "r", "t", " ", "M">>
\* the line |@import Z|
Line_import_Z == <<"@", "i", "m", "p", "o", "r", "t", " ", "Z">>
\* the line |@import E|
Line_import_E == <<"@", "i", "m", "p", "o", "r", "t", " ", "E">>

\* headers, an import and a key line: the section tree and the merge
SectionLines ==
    {Line_a, Line_a_b, Line_arr_a_x, Line_arr_dot_x, Line_dot_x, Line_arr_x,
     Line_x, Line_import_B, Line_k_0}

\* headers and key lines inside a section: the value interpreter
ValueLines ==
    {Line_g, Line_h_dots, Line_k_env_A, Line_k_env_U, Line_j_env_A_B,
     Line_r_raw, Line_k_cut}

\* key lines, value lines with an empty key, and what can come between them
ContinuationLines ==
    {Line_g, Line_h, Line_k_env_A, Line_k_env_U, Line_r_raw, Line_more,
     Line_more_raw, Line_blank, Line_comment, Line_insert, Line_import_M}

\* a header and the imports of a file that is missing, of files with
\* errors of their own and of a file that imports itself
ImportLines ==
    {Line_g, Line_import_M, Line_import_E, Line_import_B, Line_import_Z}

(***************************************************************************)
(* The state of the outermost call of parse(): the heap, the locals of     *)
(* parse, the lines the loop has taken so far (contents) and the exception *)
(* that ended the call (raised, "" while none has).  The call can return   *)
(* res and parse_errors after any line: every text is a prefix of a text.  *)
(***************************************************************************)
VARIABLES heap, res, current_section, current_key, parse_errors, line_nb,
          contents, raised

vars == <<heap, res, current_section, current_key, parse_errors, line_nb,
          contents, raised>>

\* the locals, as the operators of parse take them
Locals ==
    [heap |-> heap, res |-> res, current_section |-> current_section,
     current_key |-> current_key, parse_errors |-> parse_errors,
     line_nb |-> line_nb, raised |-> raised]

\* the locals become those of st
Becomes(st) ==
    /\ heap' = st.heap
    /\ res' = st.res
    /\ current_section' = st.current_section
    /\ current_key' = st.current_key
    /\ parse_errors' = st.parse_errors
    /\ line_nb' = st.line_nb
    /\ raised' = st.raised

\* the loop of parse takes its next line
Turn(line) ==
    /\ raised = ""
    /\ line_nb < MaxLines
    /\ contents' = Append(contents, line)
    /\ Becomes(parse_line(Locals, line, 0))

Init ==
    /\ heap = ParseStart(<<>>).heap
    /\ res = ParseStart(<<>>).res
    /\ current_section = 0
    /\ current_key = <<>>
    /\ parse_errors = <<>>
    /\ line_nb = 0
    /\ contents = <<>>
    /\ raised = ""

\* an empty line is ignored
BlankLine(line) ==
    /\ strip(line) = <<>>
    /\ Turn(line)

\* a comment line is ignored
CommentLine(line) ==
    /\ strip(line) # <<>>
    /\ startswith(strip(line), COMMENT_PREFIX)
    /\ Turn(line)

IsDirectiveOrKeyValue(line) ==
    /\ strip(line) # <<>>
    /\ ~startswith(strip(line), COMMENT_PREFIX)

ImportLine(line) ==
    /\ IsDirectiveOrKeyValue(line)
    /\ startswith(strip(line), IMPORT)
    /\ Turn(line)

InsertLine(line) ==
    /\ IsDirectiveOrKeyValue(line)
    /\ ~startswith(strip(line), IMPORT)
    /\ startswith(strip(line), INSERT)
    /\ Turn(line)

SectionLine(line) ==
    /\ IsDirectiveOrKeyValue(line)
    /\ ~startswith(strip(line), IMPORT)
    /\ ~startswith(strip(line), INSERT)
    /\ startswith(strip(line), <<"[">>)
    /\ Turn(line)

KeyValueLine(line) ==
    /\ IsDirectiveOrKeyValue(line)
    /\ ~startswith(strip(line), IMPORT)
    /\ ~startswith(strip(line), INSERT)
    /\ ~startswith(strip(line), <<"[">>)
    /\ Turn(line)

Next ==
    \/ \E line \in SectionLines : SectionLine(line)
    \/ \E line \in SectionLines : ImportLine(line)
    \/ \E line \in SectionLines : KeyValueLine(line)

Spec == Init /\ [][Next]_vars

NextValues ==
    \/ \E line \in ValueLines : SectionLine(line)
    \/ \E line \in ValueLines : KeyValueLine(line)

SpecValues == Init /\ [][NextValues]_vars

NextContinuation ==
    \/ \E line \in ContinuationLines : BlankLine(line)
    \/ \E line \in ContinuationLines : CommentLine(line)
    \/ \E line \in ContinuationLines : ImportLine(line)
    \/ \E line \in ContinuationLines : InsertLine(line)
    \/ \E line \in ContinuationLines : SectionLine(line)
    \/ \E line \in ContinuationLines : KeyValueLine(line)

SpecContinuation == Init /\ [][NextContinuation]_vars

NextImports ==
    \/ \E line \in ImportLines : ImportLine(line)
    \/ \E line \in ImportLines : SectionLine(line)

SpecImports == Init /\ [][NextImports]_vars

(***************************************************************************)
(* What the claims speak of.                                               *)
(***************************************************************************)
\* a line was taken in this step, and which
IsStep == Len(contents') = Len(contents) + 1
NewLine == contents'[Len(contents')]

\* the step recorded one error, for its line, and no other
ErrorRecorded ==
    /\ Len(parse_errors') = Len(parse_errors) + 1
    /\ SubSeq(parse_errors', 1, Len(parse_errors)) = parse_errors
    /\ parse_errors'[Len(parse_errors')].line_nb = Len(contents')
    /\ parse_errors'[Len(parse_errors')].line = NewLine

HasError(message) ==
    \E i \in 1..Len(parse_errors) : parse_errors[i].message = message

\* a well-formed header line, its name and its kind
IsHeaderLine(line) ==
    /\ startswith(strip(line), <<"[">>)
    /\ _parse_section_row(strip(line)).name # <<>>
HeaderName(line) == _parse_section_row(strip(line)).name
HeaderIsArray(line) == _parse_section_row(strip(line)).is_array
HeaderIsDotted(line) == startswith(HeaderName(line), <<".">>)

\* the segments of a dotted path
RECURSIVE Segments(_)
Segments(path) ==
    IF contains(path, <<".">>)
    THEN <<split_dot(path)[1]>> \o Segments(split_dot(path)[2])
    ELSE <<path>>

\* the segments a header names, the leading dot left out
HeaderSegments(line) ==
    Segments(IF HeaderIsDotted(line) THEN Tail(HeaderName(line))
                                     ELSE HeaderName(line))
HeaderPrefix(line) ==
    SubSeq(HeaderSegments(line), 1, Len(HeaderSegments(line)) - 1)
HeaderTerminal(line) == HeaderSegments(line)[Len(HeaderSegments(line))]

\* the section the names segs lead to from container c through scalar
\* sections, 0 when a name is unbound or bound to a list
RECURSIVE Walk(_, _, _)
Walk(h, c, segs) ==
    IF segs = <<>>
    THEN c
    ELSE IF in_dict(h[c].sections, Head(segs))
            /\ IsSection(h, getitem(h[c].sections, Head(segs)))
    THEN Walk(h, getitem(h[c].sections, Head(segs)), Tail(segs))
    ELSE 0

\* the objects reached from o through section maps and lists, o included
RECURSIVE Reach(_, _)
Reach(h, o) ==
    {o} \cup UNION {Reach(h, h[o].sections[i].v) : i \in 1..Len(h[o].sections)}
        \cup UNION {Reach(h, h[o].items[i]) : i \in 1..Len(h[o].items)}

\* the sections bound in the section map of c, list elements included
Children(h, c) ==
    UNION {IF IsSection(h, h[c].sections[i].v)
           THEN {h[c].sections[i].v}
           ELSE {h[h[c].sections[i].v].items[j] :
                    j \in 1..Len(h[h[c].sections[i].v].items)} :
           i \in 1..Len(h[c].sections)}

\* the top-level section of file r from which section sec is reached,
\* 0 when sec is not in the tree of r
TreeTop(h, r, sec) ==
    IF \E t \in Children(h, r) : sec \in Reach(h, t)
    THEN CHOOSE t \in Children(h, r) : sec \in Reach(h, t)
    ELSE 0

\* the container a header resolves its path from: the file, or for a
\* dot-prefixed name the top-level section of the current section
HeaderBase(line) ==
    IF HeaderIsDotted(line)
    THEN IF current_section = 0
         THEN 0
         ELSE TreeTop(heap, res, current_section)
    ELSE res

\* the parent a header declares its terminal name under, in heap h
HeaderParent(h, line) ==
    IF HeaderBase(line) = 0 THEN 0 ELSE Walk(h, HeaderBase(line), HeaderPrefix(line))

\* a key/value line, as the loop of parse classifies and matches it
IsKeyValueLine(line) ==
    /\ strip(line) # <<>>
    /\ ~startswith(strip(line), COMMENT_PREFIX)
    /\ ~startswith(strip(line), IMPORT)
    /\ ~startswith(strip(line), INSERT)
    /\ ~startswith(strip(line), <<"[">>)
    /\ key_value_row(line).matched
KeyOf(line) == key_value_row(line).k
OperatorOf(line) == key_value_row(line).op

\* the characters that follow the first occurrence of the operator op
AfterOperator(line, op) == SubSeq(line, index(line, op) + Len(op), Len(line))

\* a text cut at its first comment marker, and trimmed
CutTrim(text) ==
    strip(IF contains(text, COMMENT_PREFIX)
          THEN SubSeq(text, 1, index(text, COMMENT_PREFIX) - 1)
          ELSE text)

\* the text an = line hands to the interpolation
InterpretedText(line) == CutTrim(AfterOperator(line, <<"=">>))

\* the position of the brace that closes the first placeholder of text, 0
\* when text holds no placeholder: the first closing brace that leaves the
\* name at least one character
FirstClose(text) ==
    IF /\ contains(text, <<"$", "{">>)
       /\ \E e \in Occurrences(text, <<"}">>) : e >= index(text, <<"$", "{">>) + 3
    THEN CHOOSE e \in Occurrences(text, <<"}">>) :
            /\ e >= index(text, <<"$", "{">>) + 3
            /\ \A f \in Occurrences(text, <<"}">>) :
                  f >= index(text, <<"$", "{">>) + 3 => e <= f
    ELSE 0

\* the names of the placeholders of text, left to right
RECURSIVE PlaceholderNames(_)
PlaceholderNames(text) ==
    IF FirstClose(text) = 0
    THEN <<>>
    ELSE <<SubSeq(text, index(text, <<"$", "{">>) + 2, FirstClose(text) - 1)>>
         \o PlaceholderNames(SubSeq(text, FirstClose(text) + 1, Len(text)))

\* text with each placeholder replaced by the value of its own name
RECURSIVE Expanded(_)
Expanded(text) ==
    IF FirstClose(text) = 0
    THEN text
    ELSE SubSeq(text, 1, index(text, <<"$", "{">>) - 1)
         \o getitem(environ, SubSeq(text, index(text, <<"$", "{">>) + 2,
                                    FirstClose(text) - 1))
         \o Expanded(SubSeq(text, FirstClose(text) + 1, Len(text)))

AllSet(names) == \A i \in 1..Len(names) : in_dict(environ, names[i])

\* the line is key = ${NAME} with nothing around the placeholder
IsPlaceholderLine(line) ==
    /\ IsKeyValueLine(line)
    /\ OperatorOf(line) = "="
    /\ KeyOf(line) # <<>>
    /\ Len(PlaceholderNames(InterpretedText(line))) = 1
    /\ InterpretedText(line)
         = <<"$", "{">> \o PlaceholderNames(InterpretedText(line))[1] \o <<"}">>
    /\ strip(AfterOperator(line, <<"=">>)) = InterpretedText(line)
PlaceholderName(line) == PlaceholderNames(InterpretedText(line))[1]

\* the step recorded the error of a missing variable called name
MissingVariableRecorded(name) ==
    /\ ErrorRecorded
    /\ parse_errors'[Len(parse_errors')].message = "Unable to find env var"
    /\ parse_errors'[Len(parse_errors')].arg = name

\* a line the loop of parse ignores: blank, or a comment
IsIgnoredLine(line) ==
    \/ strip(line) = <<>>
    \/ startswith(strip(line), COMMENT_PREFIX)

\* an @import, an @insert or a section header line
IsDirectiveOrHeaderLine(line) ==
    /\ ~IsIgnoredLine(line)
    /\ \/ startswith(strip(line), IMPORT)
       \/ startswith(strip(line), INSERT)
       \/ startswith(strip(line), <<"[">>)

\* the value interpreter gives the line a value, and which
IsInterpreted(line) ==
    /\ IsKeyValueLine(line)
    /\ OperatorOf(line) = "=" => AllSet(PlaceholderNames(InterpretedText(line)))
InterpretedValue(line) ==
    IF OperatorOf(line) = "="
    THEN Expanded(InterpretedText(line))
    ELSE AfterOperator(line, <<":", "=">>)

\* the interpreted values of the key/value lines among lines, in line
\* order, joined by single newline characters
RECURSIVE JoinedValues(_)
JoinedValues(lines) ==
    IF lines = <<>>
    THEN <<>>
    ELSE IF IsIgnoredLine(lines[Len(lines)])
    THEN JoinedValues(SubSeq(lines, 1, Len(lines) - 1))
    ELSE IF \A i \in 1..(Len(lines) - 1) : IsIgnoredLine(lines[i])
    THEN InterpretedValue(lines[Len(lines)])
    ELSE JoinedValues(SubSeq(lines, 1, Len(lines) - 1))
         \o <<"\n">> \o InterpretedValue(lines[Len(lines)])

\* the position in contents of the closest key line with a key that is
\* not empty, 0 when there is none
IsKeyLineAt(p) == IsKeyValueLine(contents[p]) /\ KeyOf(contents[p]) # <<>>
ClosestKeyLine ==
    IF \E p \in 1..Len(contents) : IsKeyLineAt(p)
    THEN CHOOSE p \in 1..Len(contents) :
            /\ IsKeyLineAt(p)
            /\ \A q \in (p + 1)..Len(contents) : ~IsKeyLineAt(q)
    ELSE 0

\* a value line with an empty key taken now continues the closest key line
Continues ==
    /\ ClosestKeyLine # 0
    /\ \A q \in (ClosestKeyLine + 1)..Len(contents) :
          ~IsDirectiveOrHeaderLine(contents[q])

\* the target of an @import line, and the line imports a file that exists
ImportTarget(line) ==
    strip(SubSeq(strip(line), Len(IMPORT) + 1, Len(strip(line))))
IsImportOfFile(line) ==
    /\ startswith(strip(line), IMPORT)
    /\ in_dict(files, ImportTarget(line))

\* the imported file parsed on its own
Standalone(line) == parse(<<>>, getitem(files, ImportTarget(line)), 1)

\* section a of heap hA holds what section b of heap hB holds
SameContent(hA, a, hB, b) ==
    /\ hA[a].entries = hB[b].entries
    /\ [i \in 1..Len(hA[a].sections) |-> hA[a].sections[i].k]
         = [i \in 1..Len(hB[b].sections) |-> hB[b].sections[i].k]

\* the elements the list bound to name in container a had in heap h0
PriorItems(h0, a, name) ==
    IF a <= Len(h0) /\ in_dict(h0[a].sections, name)
    THEN h0[getitem(h0[a].sections, name)].items
    ELSE <<>>

\* container a of the importing tree carries, in heap h1, what container b
\* of the imported tree holds in heap hB, h0 being the heap before the
\* import: the entries of b with the values of b, the scalar sections of b
\* likewise, and each list of b appended to what the list held before
RECURSIVE Carries(_, _, _, _, _)
Carries(h0, h1, a, hB, b) ==
    /\ \A i \in 1..Len(hB[b].entries) :
          /\ in_dict(h1[a].entries, hB[b].entries[i].k)
          /\ getitem(h1[a].entries, hB[b].entries[i].k) = hB[b].entries[i].v
    /\ \A i \in 1..Len(hB[b].sections) :
          LET name == hB[b].sections[i].k
              ref == hB[b].sections[i].v
          IN  /\ in_dict(h1[a].sections, name)
              /\ IF IsSection(hB, ref)
                 THEN /\ IsSection(h1, getitem(h1[a].sections, name))
                      /\ Carries(h0, h1, getitem(h1[a].sections, name), hB, ref)
                 ELSE /\ ~IsSection(h1, getitem(h1[a].sections, name))
                      /\ LET items == h1[getitem(h1[a].sections, name)].items
                             prior == PriorItems(h0, a, name)
                         IN  /\ Len(items) = Len(prior) + Len(hB[ref].items)
                             /\ SubSeq(items, 1, Len(prior)) = prior
                             /\ \A j \in 1..Len(hB[ref].items) :
                                   SameContent(h1, items[Len(prior) + j],
                                               hB, hB[ref].items[j])

\* the pairs of a section of the importing tree, in heap h1, and the
\* scalar section of the imported tree, in heap hB, it is merged with,
\* from the pair of a and b down
RECURSIVE MergedPairs(_, _, _, _)
MergedPairs(h1, a, hB, b) ==
    {<<a, b>>}
    \cup UNION {MergedPairs(h1, getitem(h1[a].sections, hB[b].sections[i].k),
                            hB, hB[b].sections[i].v) :
                  i \in {j \in 1..Len(hB[b].sections) :
                           /\ IsSection(hB, hB[b].sections[j].v)
                           /\ in_dict(h1[a].sections, hB[b].sections[j].k)
                           /\ IsSection(h1, getitem(h1[a].sections,
                                                    hB[b].sections[j].k))}}

\* the entry of key k of object o is one the merge of pairs writes, hB
\* being the heap of the imported file
TouchedByImport(pairs, hB, o, k) ==
    \E pair \in pairs : pair[1] = o /\ in_dict(hB[pair[2]].entries, k)

\* the merge of pairs writes each entry of the imported file and leaves
\* every other entry as it was
ImportOverwrites(pairs, hB) ==
    /\ \A pair \in pairs : \A i \in 1..Len(hB[pair[2]].entries) :
          /\ in_dict(heap'[pair[1]].entries, hB[pair[2]].entries[i].k)
          /\ getitem(heap'[pair[1]].entries, hB[pair[2]].entries[i].k)
               = hB[pair[2]].entries[i].v
    /\ \A o \in 1..Len(heap) : \A i \in 1..Len(heap[o].entries) :
          \/ TouchedByImport(pairs, hB, o, heap[o].entries[i].k)
          \/ heap'[o].entries[i] = heap[o].entries[i]
ImportedOverwrites(sb) ==
    ImportOverwrites(MergedPairs(heap', res, sb.heap, sb.res), sb.heap)

\* the entry of key k of object o is the one a key/value line writes
TouchedByKeyLine(o, k) ==
    /\ o = current_section
    /\ IF KeyOf(NewLine) # <<>> THEN k = KeyOf(NewLine) ELSE k = current_key

\* the errors the target of an @import line gives the importing file: the
\* error of parse_file when no file has the name, else those of its parse
ImportedErrors(line) ==
    IF in_dict(files, ImportTarget(line))
    THEN Standalone(line).parse_errors
    ELSE << SrcfgParseError(0, <<>>, "Unable to find file", ImportTarget(line),
                            <<>>) >>

\* the errors the step added to the list
NewErrors == SubSeq(parse_errors', Len(parse_errors) + 1, Len(parse_errors'))

\* error e is the one error of the @import line taken in this step that
\* carries the errors nested as its nested errors
WrapsImportedErrors(e, nested) ==
    /\ e.line_nb = Len(contents')
    /\ e.line = NewLine
    /\ e.message = "Got errors when importing file"
    /\ e.internal_errors = nested

\* the files a file imports, and those it reaches through at most n
\* further imports
ImportedBy(name) ==
    {ImportTarget(getitem(files, name)[i]) :
        i \in {j \in 1..Len(getitem(files, name)) :
                  IsImportOfFile(getitem(files, name)[j])}}
RECURSIVE ImportedWithin(_, _)
ImportedWithin(names, n) ==
    IF n = 0
    THEN names
    ELSE ImportedWithin(names \cup UNION {ImportedBy(name) : name \in names},
                        n - 1)

\* the imports of the file form a cycle, or lead to one
ImportsFormCycle(name) ==
    \E f \in ImportedWithin({name}, Len(files)) :
        f \in ImportedWithin(ImportedBy(f), Len(files))

\* key k being current, section s is set and holds an entry under k in heap h
CurrentKeyHasEntry(h, s, k) ==
    k # <<>> => s # 0 /\ in_dict(h[s].entries, k)

\* the keys of the entries of object o in heap h, in insertion order
EntryKeys(h, o) == [i \in 1..Len(h[o].entries) |-> h[o].entries[i].k]

(***************************************************************************)
(* The claims.                                                             *)
(***************************************************************************)
\* C1: after any sequence of header lines and @import lines, each name in
\* any one parent's section map keeps the kind it had when first bound:
\* once bound to a single section it is never bound to a list, and once
\* bound to a list it is never bound to a single section.
C1_KindNeverSwitches ==
    [][\A o \in 1..Len(heap) : \A i \in 1..Len(heap[o].sections) :
          /\ o <= Len(heap')
          /\ in_dict(heap'[o].sections, heap[o].sections[i].k)
          /\ heap'[getitem(heap'[o].sections, heap[o].sections[i].k)].kind
                = heap[heap[o].sections[i].v].kind]_vars

\* C1 witness: a header and an import both tried to switch a bound kind
C1_Witness ==
    /\ HasError("Section with name is not an array")
    /\ HasError("Unable to merge section: cannot merge section with list")
    /\ IsSection(heap, getitem(heap[res].sections, <<"x">>))

\* C2: a header that declares as an array a name already bound to a scalar
\* section under the same parent, or as scalar a name already bound to an
\* array, records a parse error and leaves the binding as it was: the same
\* section with the same entries, the same list with the same elements.
C2_KindConflictRejected ==
    [][(/\ IsStep
        /\ IsHeaderLine(NewLine)
        /\ HeaderParent(heap, NewLine) # 0
        /\ in_dict(heap[HeaderParent(heap, NewLine)].sections,
                   HeaderTerminal(NewLine))
        /\ HeaderIsArray(NewLine)
             = IsSection(heap, getitem(heap[HeaderParent(heap, NewLine)].sections,
                                       HeaderTerminal(NewLine))))
       => LET parent == HeaderParent(heap, NewLine)
              bound == getitem(heap[parent].sections, HeaderTerminal(NewLine))
          IN  /\ ErrorRecorded
              /\ heap'[parent].sections = heap[parent].sections
              /\ heap'[bound] = heap[bound]
              /\ \A j \in 1..Len(heap[bound].items) :
                    heap'[heap[bound].items[j]] = heap[heap[bound].items[j]]]_vars

\* C3: resolving a scalar path that has no leading dot creates the chain of
\* sections it names from the file, and resolving the same path, or a
\* prefix of it, again creates no section and returns the very same section.
C3_ScalarPathIdempotent ==
    [][(/\ IsStep
        /\ IsHeaderLine(NewLine)
        /\ ~HeaderIsArray(NewLine)
        /\ ~HeaderIsDotted(NewLine))
       => /\ parse_errors' = parse_errors
             => /\ current_section' # 0
                /\ Walk(heap', res, HeaderSegments(NewLine)) = current_section'
          /\ Walk(heap, res, HeaderSegments(NewLine)) # 0
             => /\ heap' = heap
                /\ parse_errors' = parse_errors
                /\ current_section' = Walk(heap, res, HeaderSegments(NewLine))]_vars

\* C3 witness: [a.b] was resolved, entries were written and another header
\* was taken, then [a.b] and its prefix [a] were resolved again
C3_Witness ==
    /\ contents = <<Line_a_b, Line_k_0, Line_a, Line_a_b>>
    /\ parse_errors = <<>>
    /\ current_section = Walk(heap, res, <<<<"a">>, <<"b">>>>)
    /\ heap[current_section].entries = <<[k |-> <<"k">>, v |-> <<"0">>]>>
    /\ Cardinality({o \in 1..Len(heap) : IsSection(heap, o)}) = 2

\* C4: the list bound to an array name x under a parent has exactly one
\* element per successful [[x]] header for that parent, in declaration
\* order, and the key/value lines that follow the k-th such header are
\* stored in the k-th element and in no other element.
C4_OneElementPerArrayHeader ==
    [][/\ (/\ IsStep
           /\ IsHeaderLine(NewLine)
           /\ HeaderIsArray(NewLine)
           /\ parse_errors' = parse_errors)
          => LET parent == HeaderParent(heap', NewLine)
                 x == HeaderTerminal(NewLine)
             IN  /\ parent # 0
                 /\ in_dict(heap'[parent].sections, x)
                 /\ ~IsSection(heap', getitem(heap'[parent].sections, x))
                 /\ heap'[getitem(heap'[parent].sections, x)].items
                      = (IF parent <= Len(heap) /\ in_dict(heap[parent].sections, x)
                         THEN heap[getitem(heap[parent].sections, x)].items
                         ELSE <<>>) \o <<current_section'>>
                 /\ current_section' > Len(heap)
       /\ (/\ IsStep
           /\ ~IsHeaderLine(NewLine)
           /\ ~startswith(strip(NewLine), IMPORT))
          => /\ current_section' = current_section
             /\ \A o \in 1..Len(heap) :
                   /\ heap'[o].items = heap[o].items
                   /\ heap'[o].sections = heap[o].sections
                   /\ o # current_section => heap'[o] = heap[o]]_vars

\* C5: for a line key = ${NAME} inside a section, if NAME is set the entry
\* key holds exactly the value of the variable; if NAME is unset the line
\* records a parse error and writes nothing: the entries of the section are
\* those it had before the line.
C5_UnsetWritesNothing ==
    [][(/\ IsStep
        /\ current_section # 0
        /\ IsPlaceholderLine(NewLine))
       => IF in_dict(environ, PlaceholderName(NewLine))
          THEN /\ parse_errors' = parse_errors
               /\ in_dict(heap'[current_section].entries, KeyOf(NewLine))
               /\ getitem(heap'[current_section].entries, KeyOf(NewLine))
                    = getitem(environ, PlaceholderName(NewLine))
          ELSE /\ MissingVariableRecorded(PlaceholderName(NewLine))
               /\ heap' = heap]_vars

\* C5 as the specification words it: if NAME is unset the key is absent
\* from the section after the line.
C5_UnsetLeavesKeyAbsent ==
    [][(/\ IsStep
        /\ current_section # 0
        /\ IsPlaceholderLine(NewLine))
       => IF in_dict(environ, PlaceholderName(NewLine))
          THEN /\ parse_errors' = parse_errors
               /\ in_dict(heap'[current_section].entries, KeyOf(NewLine))
               /\ getitem(heap'[current_section].entries, KeyOf(NewLine))
                    = getitem(environ, PlaceholderName(NewLine))
          ELSE /\ MissingVariableRecorded(PlaceholderName(NewLine))
               /\ ~in_dict(heap'[current_section].entries, KeyOf(NewLine))]_vars

\* C5 witness: k was written from a set variable, then assigned an unset one
C5_Witness ==
    /\ contents = <<Line_g, Line_k_env_A, Line_k_env_U>>
    /\ heap[current_section].entries = <<[k |-> <<"k">>, v |-> <<"7", "7">>]>>
    /\ Len(parse_errors) = 1
    /\ parse_errors[1].line_nb = 3
    /\ parse_errors[1].message = "Unable to find env var"
    /\ parse_errors[1].arg = <<"U">>

\* C6: in an interpolated value that holds several placeholders, each
\* placeholder is looked up by its own name and replaced by the value of
\* that variable, left to right; the value is rejected, with an error and
\* no entry written, only if one of those names is unset.
C6_EachPlaceholderByItsName ==
    [][(/\ IsStep
        /\ current_section # 0
        /\ IsKeyValueLine(NewLine)
        /\ OperatorOf(NewLine) = "="
        /\ KeyOf(NewLine) # <<>>
        /\ Len(PlaceholderNames(InterpretedText(NewLine))) >= 2)
       => IF AllSet(PlaceholderNames(InterpretedText(NewLine)))
          THEN /\ parse_errors' = parse_errors
               /\ in_dict(heap'[current_section].entries, KeyOf(NewLine))
               /\ getitem(heap'[current_section].entries, KeyOf(NewLine))
                    = Expanded(InterpretedText(NewLine))
          ELSE /\ ErrorRecorded
               /\ heap' = heap]_vars

\* C7: for a line key := TEXT inside a section the stored value is exactly
\* the characters that follow := on the line, spaces, comment marker and
\* placeholders kept, and no error is recorded; the same TEXT assigned
\* with = is cut at the first comment marker and trimmed.
C7_RawKeptInterpretedCut ==
    [][(/\ IsStep
        /\ current_section # 0
        /\ IsKeyValueLine(NewLine)
        /\ KeyOf(NewLine) # <<>>)
       => /\ OperatorOf(NewLine) = ":="
             => /\ parse_errors' = parse_errors
                /\ in_dict(heap'[current_section].entries, KeyOf(NewLine))
                /\ getitem(heap'[current_section].entries, KeyOf(NewLine))
                     = AfterOperator(NewLine, <<":", "=">>)
          /\ (/\ OperatorOf(NewLine) = "="
              /\ PlaceholderNames(InterpretedText(NewLine)) = <<>>)
             => /\ parse_errors' = parse_errors
                /\ in_dict(heap'[current_section].entries, KeyOf(NewLine))
                /\ getitem(heap'[current_section].entries, KeyOf(NewLine))
                     = InterpretedText(NewLine)]_vars

\* C7 witness: the same text was assigned raw to r and interpreted to k
C7_Witness ==
    /\ contents = <<Line_g, Line_r_raw, Line_k_cut>>
    /\ AfterOperator(Line_r_raw, <<":", "=">>) = AfterOperator(Line_k_cut, <<"=">>)
    /\ parse_errors = <<>>
    /\ heap[current_section].entries
         = << [k |-> <<"r">>,
               v |-> <<" ", "t", " ", ";", ";", " ", "$", "{", "U", "}", " ">>],
              [k |-> <<"k">>, v |-> <<"t">>] >>

\* C8: a key line with a key that is not empty, followed by n value lines
\* with an empty key and no directive or header between them, yields an
\* entry equal to the n + 1 interpreted values joined by single newline
\* characters in line order; blank and comment lines between add nothing.
C8_ContinuationJoinsValues ==
    \A p \in 1..Len(contents) :
        (/\ current_section # 0
         /\ IsKeyValueLine(contents[p])
         /\ KeyOf(contents[p]) # <<>>
         /\ IsInterpreted(contents[p])
         /\ \A q \in (p + 1)..Len(contents) :
               \/ IsIgnoredLine(contents[q])
               \/ /\ IsKeyValueLine(contents[q])
                  /\ KeyOf(contents[q]) = <<>>
                  /\ IsInterpreted(contents[q]))
        => /\ in_dict(heap[current_section].entries, KeyOf(contents[p]))
           /\ getitem(heap[current_section].entries, KeyOf(contents[p]))
                = JoinedValues(SubSeq(contents, p, Len(contents)))

\* C8 witness: a key line, a comment line and a value line with an empty
\* key gave the two values joined by one newline
C8_Witness ==
    /\ contents = <<Line_g, Line_k_env_A, Line_comment, Line_more>>
    /\ parse_errors = <<>>
    /\ heap[current_section].entries
         = <<[k |-> <<"k">>, v |-> <<"7", "7", "\n", "x">>]>>

\* C9: a value line with an empty key appends only to the entry of the key
\* named by the closest preceding key line with a key that is not empty,
\* and only when that key line is in the same section with no @import,
\* @insert or header line between the two; in every other case the line
\* records a missing-key error and changes no entry.
C9_ContinuationOnlyToClosestKey ==
    [][(/\ IsStep
        /\ current_section # 0
        /\ IsKeyValueLine(NewLine)
        /\ KeyOf(NewLine) = <<>>
        /\ IsInterpreted(NewLine))
       => IF Continues
          THEN /\ \A o \in 1..Len(heap) : o # current_section => heap'[o] = heap[o]
               /\ \A i \in 1..Len(heap[current_section].entries) :
                     heap[current_section].entries[i].k # KeyOf(contents[ClosestKeyLine])
                     => heap'[current_section].entries[i]
                          = heap[current_section].entries[i]
               /\ \A i \in 1..Len(heap'[current_section].entries) :
                     heap'[current_section].entries[i].k # KeyOf(contents[ClosestKeyLine])
                     => in_dict(heap[current_section].entries,
                                heap'[current_section].entries[i].k)
          ELSE /\ ErrorRecorded
               /\ parse_errors'[Len(parse_errors')].message = "Please specify a key"
               /\ heap' = heap]_vars

\* C10: when a file imports a file B, a first or a repeated time, and the
\* import records no error, then after the import every entry of the
\* scalar sections of B holds the value of B in the importing tree, and
\* every array section of B has in the importing tree its prior length
\* plus the length it has in B, the elements of B appended in the order of
\* B and never deduplicated.
C10_ImportCarriesEntriesAndGrowsArrays ==
    [][(/\ IsStep
        /\ IsImportOfFile(NewLine)
        /\ parse_errors' = parse_errors)
       => Carries(heap, heap', res, Standalone(NewLine).heap,
                  Standalone(NewLine).res)]_vars

\* C10 as the specification words it, for every importing file: after the
\* second import of B the entries of B hold the values of B and the arrays
\* of B have grown by the length of B.
C10_SecondImportAlwaysCarries ==
    [][(/\ IsStep
        /\ IsImportOfFile(NewLine)
        /\ \E p \in 1..Len(contents) : contents[p] = NewLine)
       => Carries(heap, heap', res, Standalone(NewLine).heap,
                  Standalone(NewLine).res)]_vars

\* C10 witness: B was imported, its entry k overwritten, and B imported
\* again: k holds the value of B and the array x holds B's elements twice
C10_Witness ==
    /\ contents = <<Line_import_B, Line_a_b, Line_k_0, Line_import_B>>
    /\ parse_errors = <<>>
    /\ heap[Walk(heap, res, <<<<"a">>, <<"b">>>>)].entries
         = <<[k |-> <<"k">>, v |-> <<"1">>]>>
    /\ Len(heap[getitem(heap[res].sections, <<"x">>)].items) = 4
    /\ [j \in 1..4 |->
           heap[heap[getitem(heap[res].sections, <<"x">>)].items[j]].entries[1].v]
         = << <<"2">>, <<"3">>, <<"2">>, <<"3">> >>

\* C11: the final value of an entry is decided by line order in the
\* importing file: an @import that records no error overwrites the entries
\* of the same name written by earlier lines, a key line with a key that is
\* not empty taken after the @import replaces the imported value, and an
\* entry that a line does not touch keeps the value it had.
C11_LineOrderDecidesValue ==
    [][IsStep
       => /\ (IsImportOfFile(NewLine) /\ parse_errors' = parse_errors)
             => ImportedOverwrites(Standalone(NewLine))
          /\ (/\ current_section # 0
              /\ IsKeyValueLine(NewLine)
              /\ KeyOf(NewLine) # <<>>
              /\ IsInterpreted(NewLine))
             => /\ in_dict(heap'[current_section].entries, KeyOf(NewLine))
                /\ getitem(heap'[current_section].entries, KeyOf(NewLine))
                     = InterpretedValue(NewLine)
          /\ ~startswith(strip(NewLine), IMPORT)
             => \A o \in 1..Len(heap) : \A i \in 1..Len(heap[o].entries) :
                   \/ IsKeyValueLine(NewLine)
                      /\ TouchedByKeyLine(o, heap[o].entries[i].k)
                   \/ heap'[o].entries[i] = heap[o].entries[i]]_vars

\* C11 witness: k was written, overwritten by the import and written again:
\* k holds the value of the last line, the imported elements of x the
\* imported values
C11_Witness ==
    /\ contents = <<Line_a_b, Line_k_0, Line_import_B, Line_k_0>>
    /\ parse_errors = <<>>
    /\ heap[Walk(heap, res, <<<<"a">>, <<"b">>>>)].entries
         = <<[k |-> <<"k">>, v |-> <<"0">>]>>
    /\ [j \in 1..2 |->
           heap[heap[getitem(heap[res].sections, <<"x">>)].items[j]].entries]
         = << <<[k |-> <<"n">>, v |-> <<"2">>]>>,
              <<[k |-> <<"n">>, v |-> <<"3">>]>> >>

\* C12: an @insert line met while a current section is set records a parse
\* error for that line and parsing goes on with the next line: the call of
\* parse() is not ended by an exception, and the tree is left as it was.
C12_InsertRecordsError ==
    [][(/\ IsStep
        /\ current_section # 0
        /\ ~IsIgnoredLine(NewLine)
        /\ startswith(strip(NewLine), INSERT))
       => /\ ErrorRecorded
          /\ raised' = ""
          /\ heap' = heap
          /\ current_section' = current_section]_vars

\* C13: a section header line that records a parse error leaves the whole
\* section tree and the current section unchanged: the failing line creates
\* no section and appends none.
C13_FailingHeaderChangesNothing ==
    [][(/\ IsStep
        /\ ~IsIgnoredLine(NewLine)
        /\ startswith(strip(NewLine), <<"[">>)
        /\ parse_errors' # parse_errors)
       => /\ ErrorRecorded
          /\ heap' = heap
          /\ current_section' = current_section]_vars

\* C14: an @import whose merge fails with a kind conflict between a single
\* section and a list records a parse error at the @import line and leaves
\* the destination tree as it was before the line: no section or entry of
\* the imported file is bound, overwritten or appended.
C14_FailedMergeChangesNothing ==
    [][(/\ IsStep
        /\ IsImportOfFile(NewLine)
        /\ parse_errors' # parse_errors
        /\ parse_errors'[Len(parse_errors')].message
             = "Unable to merge section: cannot merge section with list")
       => /\ ErrorRecorded
          /\ \A o \in 1..Len(heap) : heap'[o] = heap[o]
          /\ current_section' = current_section]_vars

\* C15: a dot-prefixed header with no current section records an error;
\* with a current section S it resolves its path relative to the top-level
\* section of the returned file from which S is reached, for every S the
\* parser can make current, array elements and imported sections included.
C15_DotPathFromTopLevelSection ==
    [][(/\ IsStep
        /\ IsHeaderLine(NewLine)
        /\ HeaderIsDotted(NewLine))
       => /\ current_section = 0
             => /\ ErrorRecorded
                /\ heap' = heap
                /\ current_section' = 0
          /\ (current_section # 0 /\ parse_errors' = parse_errors)
             => /\ HeaderBase(NewLine) # 0
                /\ HeaderParent(heap', NewLine) # 0
                /\ in_dict(heap'[HeaderParent(heap', NewLine)].sections,
                           HeaderTerminal(NewLine))
                /\ LET bound == getitem(heap'[HeaderParent(heap', NewLine)].sections,
                                        HeaderTerminal(NewLine))
                   IN  IF HeaderIsArray(NewLine)
                       THEN /\ ~IsSection(heap', bound)
                            /\ heap'[bound].items # <<>>
                            /\ heap'[bound].items[Len(heap'[bound].items)]
                                 = current_section'
                       ELSE bound = current_section']_vars

C17_CurrentSectionReachable ==
    current_section # 0 => current_section \in Reach(heap, res)

\* C18: in every state parse() reaches, each section bound in the section
\* map of a container of the returned tree, directly or as an element of a
\* list bound there, has that container as its parent, after the creation
\* of a path and after an @import that binds or appends imported sections.
C18_ParentIsContainer ==
    \A c \in Reach(heap, res) :
        \A child \in Children(heap, c) : heap[child].parent = c

\* C19: parsing a file whose @import lines form a cycle terminates and
\* surfaces the cycle as an error of the @import line: the call of parse()
\* is not ended by an exception raised from imports nested without bound.
C19_CyclicImportSurfacesError ==
    [][(/\ IsStep
        /\ IsImportOfFile(NewLine)
        /\ ImportsFormCycle(ImportTarget(NewLine)))
       => /\ raised' = ""
          /\ Len(parse_errors') > Len(parse_errors)
          /\ parse_errors'[Len(parse_errors')].line_nb = Len(contents')]_vars

\* C20: at every line boundary of parse(), if the current key is set then
\* a current section is set and holds an entry under the current key; hence
\* a value line with an empty key taken while the current key is set
\* appends to that entry and creates no entry.
C20_CurrentKeyHasEntry ==
    [][/\ CurrentKeyHasEntry(heap, current_section, current_key)
       /\ CurrentKeyHasEntry(heap', current_section', current_key')
       /\ (/\ IsStep
           /\ current_section # 0
           /\ current_key # <<>>
           /\ IsKeyValueLine(NewLine)
           /\ KeyOf(NewLine) = <<>>
           /\ IsInterpreted(NewLine))
          => /\ EntryKeys(heap', current_section) = EntryKeys(heap, current_section)
             /\ getitem(heap'[current_section].entries, current_key)
                  = getitem(heap[current_section].entries, current_key)
                    \o <<"\n">> \o InterpretedValue(NewLine)
             /\ current_key' = current_key
             /\ parse_errors' = parse_errors]_vars

\* C20 witness: after r was written the key line of k failed, r stayed the
\* current key, and the value line with an empty key appended to r
C20_Witness ==
    /\ contents = <<Line_g, Line_r_raw, Line_k_env_U, Line_more>>
    /\ current_key = <<"r">>
    /\ current_section # 0
    /\ heap[current_section].entries
         = << [k |-> <<"r">>,
               v |-> <<" ", "t", " ", ";", ";", " ", "$", "{", "U", "}", " ",
                       "\n", "x">>] >>

====
